---- MODULE Spec2Model ----
(***************************************************************************)
(* A model of the BM25F in-memory search engine of                         *)
(* src/src/wink-bm25-text-search.js (the closure returned by bm25fIMS).    *)
(*                                                                         *)
(* Representation.                                                         *)
(*  - A JavaScript value that may be null/undefined is a sequence of       *)
(*    length 0 (absent) or 1 (present): None / Some(x).                    *)
(*  - A string is the sequence of its characters; with no preparatory      *)
(*    task defined the code iterates over the characters of the string     *)
(*    (tkns[ i ], tkns.length), so the tokens are the characters.          *)
(*  - A number that the code computes in floating point (weights,          *)
(*    frequencies, lengths, idf, scores) is a fixed-point integer with     *)
(*    Scale units per 1; totalDocs and limits are plain integers.          *)
(*  - An object used as a map (documents, freq, invertedIdx, idf) is a     *)
(*    function whose DOMAIN is the set of keys; config.fldWeights, whose   *)
(*    for-in order matters, is the sequence of its entries in insertion    *)
(*    order.                                                               *)
(***************************************************************************)
EXTENDS Integers, Sequences, FiniteSets, TLC

\* ------------------------------------------------------------------ bounds
\* Fixed-point resolution: Scale units represent 1.0.
Scale == 1000
\* Successful consolidate() calls allowed between two reset() calls.
MaxConsolidations == 2
\* Largest magnitude of an explicit search limit.
MaxLimit == 3

\* ------------------------------------------------------- program constants
MinDocs == 3
DefaultLimit == 10

\* --------------------------------------------------------------- optionals
None == << >>
Some(x) == << x >>
IsSome(o) == Len(o) = 1
Val(o) == o[1]

EmptyMap == << >>

\* Fixed-point helpers.
FP(n) == n * Scale
Max(a, b) == IF a > b THEN a ELSE b

\* The IEEE special values a division by zero brings in, as integers outside
\* the range of the finite values, and JavaScript's arithmetic on them (the
\* sign of a zero is not kept).  JsonNull is the null that JSON.stringify
\* writes for a special value; arithmetic reads it as 0.  Undefined is the
\* value of a property that an imported mapping does not have; arithmetic
\* reads it as NaN.
Infinity == 1000000 * Scale
NegInfinity == 0 - Infinity
NaN == Infinity + 1
JsonNull == Infinity + 2
Undefined == Infinity + 3
IsFinite(x) == NegInfinity < x /\ x < Infinity
ToNumber(x) == IF x = JsonNull THEN 0 ELSE IF x = Undefined THEN NaN ELSE x
\* A count read as a number, and as a fixed-point number.
Succ(n) == IF ToNumber(n) = NaN THEN NaN ELSE ToNumber(n) + 1
CountFP(n) == IF ToNumber(n) = NaN THEN NaN ELSE FP(ToNumber(n))

Abs(x) == IF x = NaN THEN NaN ELSE IF x < 0 THEN 0 - x ELSE x
\* Math.sign, as a fixed-point number.
Sign(x) ==
  IF x = NaN THEN NaN ELSE IF x < 0 THEN 0 - Scale ELSE IF x > 0 THEN Scale ELSE 0
FAdd(a, b) ==
  IF a = NaN \/ b = NaN THEN NaN
  ELSE IF IsFinite(a) /\ IsFinite(b) THEN a + b
  ELSE IF IsFinite(a) THEN b
  ELSE IF IsFinite(b) \/ a = b THEN a
  ELSE NaN
FMul(a, b) ==
  IF a = NaN \/ b = NaN THEN NaN
  ELSE IF IsFinite(a) /\ IsFinite(b) THEN (a * b) \div Scale
  ELSE IF a = 0 \/ b = 0 THEN NaN
  ELSE IF (a < 0) = (b < 0) THEN Infinity ELSE NegInfinity
FDiv(a, b) ==
  IF a = NaN \/ b = NaN THEN NaN
  ELSE IF IsFinite(a) /\ IsFinite(b)
  THEN IF b # 0 THEN (a * Scale) \div b
       ELSE IF a = 0 THEN NaN ELSE IF a > 0 THEN Infinity ELSE NegInfinity
  ELSE IF IsFinite(a) THEN 0
  ELSE IF ~IsFinite(b) THEN NaN
  ELSE IF (a < 0) = (b < 0) THEN Infinity ELSE NegInfinity
\* a < b and a >= b on numbers: false when either is NaN.
Less(a, b) == a # NaN /\ b # NaN /\ a < b
GreaterEq(a, b) == a # NaN /\ b # NaN /\ a >= b

\* ------------------------------------------------------------------ inputs
Fields == {"title", "body"}
SearchField == "search"
DocIds == {"d1", "d2", "d3"}

\* The caller's transform functions: the engine treats them as opaque
\* unary functions; two concrete ones that do not commute.
TaskNames == {"dup", "tail"}
RECURSIVE Dup(_)
Dup(s) == IF s = << >> THEN << >> ELSE << Head(s), Head(s) >> \o Dup(Tail(s))
ApplyTask(name, x) ==
  IF name = "dup" THEN Dup(x)
  ELSE IF x = << >> THEN << >> ELSE Tail(x)

\* definePrepTasks arguments: tasks is [isArray, items]; an item is a task
\* name or "notFunction"; field is None (undefined/null), Some(name), or
\* Some("#notString").
Tasks(items) == [isArray |-> TRUE, items |-> items]
NotArray == [isArray |-> FALSE, items |-> << >>]
PrepInputs ==
  { << Tasks(<< "tail", "dup" >>), None >>,
    << Tasks(<< "dup", "notFunction" >>), None >>,
    << NotArray, None >>,
    << Tasks(<< >>), Some(SearchField) >>,
    << Tasks(<< "dup" >>), Some(SearchField) >>,
    << Tasks(<< "dup" >>), Some("#notString") >> }

\* defineConfig arguments.  fldWeights is None when it is not an object;
\* a weight is Some(number) or None (null or not a number).  bm25Params is
\* None when absent; each parameter is Some(number) or None.
NoParams == None
FW(f, w) == [field |-> f, weight |-> w]
CfgInputs ==
  { [isObject |-> FALSE, fldWeights |-> None, bm25Params |-> NoParams],
    [isObject |-> TRUE, fldWeights |-> None, bm25Params |-> NoParams],
    [isObject |-> TRUE, fldWeights |-> Some(<< >>), bm25Params |-> NoParams],
    [isObject |-> TRUE,
     fldWeights |-> Some(<< FW("title", Some(FP(2))), FW("body", None) >>),
     bm25Params |-> NoParams],
    [isObject |-> TRUE,
     fldWeights |-> Some(<< FW("title", Some(FP(2))), FW("body", Some(FP(1))) >>),
     bm25Params |-> Some([b |-> None, k1 |-> Some(FP(2)), k |-> None])],
    [isObject |-> TRUE,
     fldWeights |-> Some(<< FW("title", Some(FP(1))), FW("body", Some(FP(0 - 1))) >>),
     bm25Params |-> NoParams] }

\* Documents: a function from the fields present to their text.
Doc2(t, b) == [f \in Fields |-> IF f = "title" THEN t ELSE b]
Doc1(f, t) == [g \in {f} |-> t]
DocInputs ==
  { Doc2(<< "a", "b" >>, << "a" >>),
    Doc2(<< "a" >>, << "c", "c" >>),
    Doc1("title", << "a" >>),
    Doc1("body", << "b" >>) }

\* search arguments: text is Some(string) or None (not a string); limit is
\* None (absent) or Some(integer).
QueryInputs == { Some(<< "b" >>), Some(<< "a", "c" >>), Some(<< "z" >>),
                 Some(<< >>), None }
LimitInputs == { None, Some(0 - MaxLimit), Some(0), Some(1), Some(MaxLimit) }

VARIABLES
  pTasks, pTaskCount, flds,
  documents, invertedIdx, idf,
  learned, consolidated,
  totalDocs, totalCorpusLength, avgCorpusLength,
  config,
  ret, nCons, nRepeat

prepVars == << pTasks, pTaskCount, flds >>
learnVars == << documents, invertedIdx, idf, learned, consolidated,
                totalDocs, totalCorpusLength, avgCorpusLength, config >>
vars == << pTasks, pTaskCount, flds, documents, invertedIdx, idf, learned,
           consolidated, totalDocs, totalCorpusLength, avgCorpusLength,
           config, ret, nCons, nRepeat >>

\* ret, nCons and nRepeat are not state of the engine.  ret is the outcome of
\* the last call; nCons counts the successful consolidate() calls since the
\* last reset() and nRepeat those since the last reset() or successful
\* importJSON().
ghostCounters == << nCons, nRepeat >>

\* The last call: its name, those of its arguments that it read before it
\* returned or threw (a call refused on the engine's state alone read none),
\* "ok" or the kind of error thrown, and the returned value.
Ret(op, arg, status, value) ==
  [op |-> op, arg |-> arg, status |-> status, value |-> value]
NoArg == << >>

Init ==
  /\ pTasks = << >>
  /\ pTaskCount = None
  /\ flds = EmptyMap
  /\ documents = EmptyMap
  /\ invertedIdx = EmptyMap
  /\ idf = EmptyMap
  /\ learned = FALSE
  /\ consolidated = FALSE
  /\ totalDocs = 0
  /\ totalCorpusLength = 0
  /\ avgCorpusLength = 0
  /\ config = None
  /\ ret = Ret("new", NoArg, "ok", TRUE)
  /\ nCons = 0
  /\ nRepeat = 0

\* ------------------------------------------------------------ prepareInput
\* Runs tasks pt[1..ptc] over x; calling a missing pt[ i ] is a TypeError.
RECURSIVE RunTasks(_, _, _, _)
RunTasks(pt, ptc, i, x) ==
  IF i > ptc THEN [ok |-> TRUE, value |-> x]
  ELSE IF i > Len(pt) THEN [ok |-> FALSE, value |-> x]
  ELSE RunTasks(pt, ptc, i + 1, ApplyTask(pt[i], x))

FldDefined(field) == field \in DOMAIN flds

PrepareInput(input, field) ==
  LET pt == IF FldDefined(field) THEN flds[field].pTasks ELSE pTasks
      ptc == IF FldDefined(field) /\ flds[field].pTaskCount # 0
             THEN Some(flds[field].pTaskCount) ELSE pTaskCount
  IN RunTasks(pt, IF IsSome(ptc) THEN Val(ptc) ELSE 0, 1, input)

\* --------------------------------------------------------- definePrepTasks
AllFunctions(items) == \A i \in 1 .. Len(items) : items[i] \in TaskNames

DefinePrepTasks(tasks, field) ==
  /\ UNCHANGED learnVars
  /\ UNCHANGED ghostCounters
  /\ IF ~tasks.isArray \/ ~AllFunctions(tasks.items)
     THEN /\ ret' = Ret("definePrepTasks", NoArg, "InvalidArgument", 0)
          /\ UNCHANGED prepVars
     ELSE IF field = None
     THEN /\ pTasks' = tasks.items
          /\ pTaskCount' = Some(Len(tasks.items))
          /\ UNCHANGED flds
          /\ ret' = Ret("definePrepTasks", NoArg, "ok", Len(tasks.items))
     ELSE IF Val(field) = "#notString"
     THEN /\ ret' = Ret("definePrepTasks", NoArg, "InvalidArgument", 0)
          /\ UNCHANGED prepVars
     ELSE /\ flds' = [f \in DOMAIN flds \cup {Val(field)} |->
                        IF f = Val(field)
                        THEN [pTasks |-> tasks.items, pTaskCount |-> Len(tasks.items)]
                        ELSE flds[f]]
          /\ UNCHANGED << pTasks, pTaskCount >>
          /\ ret' = Ret("definePrepTasks", NoArg, "ok", Len(tasks.items))

\* ------------------------------------------------------------ defineConfig
DefaultK1 == (6 * Scale) \div 5
DefaultB == (3 * Scale) \div 4
DefaultK == Scale
DefaultParams == [k1 |-> DefaultK1, b |-> DefaultB, k |-> DefaultK]

\* The loop over cfg.fldWeights: the weights accepted before the first one
\* that is null or not a number.
RECURSIVE SetupWeights(_, _, _)
SetupWeights(fw, i, acc) ==
  IF i > Len(fw) THEN [ok |-> TRUE, fldWeights |-> acc]
  ELSE IF ~IsSome(fw[i].weight) THEN [ok |-> FALSE, fldWeights |-> acc]
  ELSE SetupWeights(fw, i + 1, Append(acc, FW(fw[i].field, Val(fw[i].weight))))

Param(p, name, default) ==
  IF IsSome(p) /\ IsSome(Val(p)[name]) THEN Val(Val(p)[name]) ELSE default

\* The configuration can no longer be changed.
ConfigFrozen_AfterConsolidation == learned /\ ~consolidated
ConfigFrozen == learned

DefineConfig(cfg) ==
  /\ UNCHANGED prepVars
  /\ UNCHANGED << documents, invertedIdx, idf, learned, consolidated,
                  totalDocs, totalCorpusLength, avgCorpusLength,
                  nCons, nRepeat >>
  /\ IF ConfigFrozen
     THEN /\ ret' = Ret("defineConfig", NoArg, "InvalidState", FALSE)
          /\ UNCHANGED config
     ELSE IF ~cfg.isObject \/ ~IsSome(cfg.fldWeights) \/ Len(Val(cfg.fldWeights)) = 0
     THEN /\ ret' = Ret("defineConfig", NoArg, "InvalidArgument", FALSE)
          /\ UNCHANGED config
     ELSE LET w == SetupWeights(Val(cfg.fldWeights), 1, << >>)
          IN IF ~w.ok
             THEN /\ config' = Some([fldWeights |-> w.fldWeights,
                                     bm25Params |-> DefaultParams])
                  /\ ret' = Ret("defineConfig", NoArg, "InvalidArgument", FALSE)
             ELSE /\ config' = Some([fldWeights |-> w.fldWeights,
                                     bm25Params |->
                                       [k1 |-> Param(cfg.bm25Params, "k1", DefaultK1),
                                        b |-> Param(cfg.bm25Params, "b", DefaultB),
                                        k |-> Param(cfg.bm25Params, "k", DefaultK)]])
                  /\ ret' = Ret("defineConfig", NoArg, "ok", TRUE)

\* ------------------------------------------------------------------ addDoc
Put(f, k, v) == [x \in DOMAIN f \cup {k} |-> IF x = k THEN v ELSE f[x]]

\* freq[ t ] === undefined: the token has not been seen in this document.
FirstOccurrence_Always(freq, t) == TRUE
FirstOccurrence(freq, t) == t \notin DOMAIN freq

\* tkns.length * Math.abs( weight )
WeightedLength_Signed(n, weight) == n * weight
WeightedLength(n, weight) == n * Abs(weight)

\* updateFreq's loop over the tokens: st is [freq, invertedIdx].
RECURSIVE UpdateTokens(_, _, _, _, _)
UpdateTokens(st, id, tkns, weight, i) ==
  IF i > Len(tkns) THEN st
  ELSE LET t == tkns[i]
       IN IF FirstOccurrence(st.freq, t)
          THEN UpdateTokens(
                 [freq |-> Put(st.freq, t, weight),
                  invertedIdx |->
                    Put(st.invertedIdx, t,
                        Append(IF t \in DOMAIN st.invertedIdx
                               THEN st.invertedIdx[t] ELSE << >>, id))],
                 id, tkns, weight, i + 1)
          ELSE UpdateTokens(
                 [freq |-> Put(st.freq, t, st.freq[t] + weight),
                  invertedIdx |-> st.invertedIdx],
                 id, tkns, weight, i + 1)

\* updateFreq: the new freq and invertedIdx and the returned length, or a
\* TypeError out of prepareInput before anything is updated.
UpdateFreq(id, text, weight, freq, field, idx) ==
  LET p == PrepareInput(text, field)
  IN IF ~p.ok
     THEN [ok |-> FALSE, freq |-> freq, invertedIdx |-> idx, length |-> 0]
     ELSE LET st == UpdateTokens([freq |-> freq, invertedIdx |-> idx],
                                 id, p.value, weight, 1)
          IN [ok |-> TRUE, freq |-> st.freq, invertedIdx |-> st.invertedIdx,
              length |-> WeightedLength(Len(p.value), weight)]

\* addDoc's loop over config.fldWeights, from entry i on; st is
\* [documents, invertedIdx, totalCorpusLength, status].
RECURSIVE AddFields(_, _, _, _, _)
AddFields(st, doc, id, fw, i) ==
  IF i > Len(fw) THEN st
  ELSE IF fw[i].field \notin DOMAIN doc
  THEN [st EXCEPT !.status = "MissingField"]
  ELSE LET u == UpdateFreq(id, doc[fw[i].field], fw[i].weight,
                           st.documents[id].freq, fw[i].field, st.invertedIdx)
       IN IF ~u.ok
          THEN [st EXCEPT !.status = "TypeError"]
          ELSE AddFields(
                 [documents |->
                    Put(st.documents, id,
                        [freq |-> u.freq,
                         length |-> st.documents[id].length + u.length]),
                  invertedIdx |-> u.invertedIdx,
                  totalCorpusLength |->
                    FAdd(ToNumber(st.totalCorpusLength), u.length),
                  status |-> "ok"],
                 doc, id, fw, i + 1)

\* addDoc's two state checks and its duplicate check.
AddBlocked_ConfigOnly == config = None
AddBlocked == config = None \/ consolidated

IsDuplicate_Never(id) == FALSE
IsDuplicate(id) == id \in DOMAIN documents

AddDoc(doc, id) ==
  /\ UNCHANGED prepVars
  /\ UNCHANGED << idf, consolidated, avgCorpusLength, config, nCons, nRepeat >>
  /\ IF AddBlocked
     THEN /\ ret' = Ret("addDoc", NoArg, "InvalidState", 0)
          /\ UNCHANGED << documents, invertedIdx, learned, totalDocs,
                          totalCorpusLength >>
     ELSE /\ learned' = TRUE
          /\ IF IsDuplicate(id)
             THEN /\ ret' = Ret("addDoc", id, "DuplicateId", 0)
                  /\ UNCHANGED << documents, invertedIdx, totalDocs,
                                  totalCorpusLength >>
             ELSE LET st == AddFields(
                              [documents |->
                                 Put(documents, id,
                                     [freq |-> EmptyMap, length |-> 0]),
                               invertedIdx |-> invertedIdx,
                               totalCorpusLength |-> totalCorpusLength,
                               status |-> "ok"],
                              doc, id, Val(config).fldWeights, 1)
                  IN /\ documents' = st.documents
                     /\ invertedIdx' = st.invertedIdx
                     /\ totalCorpusLength' = st.totalCorpusLength
                     /\ IF st.status = "ok"
                        THEN /\ totalDocs' = Succ(totalDocs)
                             /\ ret' = Ret("addDoc", id, "ok", Succ(totalDocs))
                        ELSE /\ UNCHANGED totalDocs
                             /\ ret' = Ret("addDoc", id, st.status, 0)

\* ------------------------------------------------------------- consolidate
\* Math.log on a fixed-point argument: ln x = 2 atanh((x - 1) / (x + 1)),
\* by the first four terms of the series.
Ln(x) ==
  IF x = NaN \/ x < 0 THEN NaN
  ELSE IF x = 0 THEN NegInfinity
  ELSE IF x = Infinity THEN Infinity
  ELSE LET y == FDiv(x - Scale, x + Scale)
           y2 == FMul(y, y)
           y3 == FMul(y2, y)
           y5 == FMul(y3, y2)
           y7 == FMul(y5, y2)
       IN 2 * (y + (y3 \div 3) + (y5 \div 5) + (y7 \div 7))

\* The BM25 saturation of one frequency (line 287).
Saturate(freq, k1, normalizationFactor) ==
  FMul(Sign(freq), Abs(FDiv(FMul(freq, k1 + Scale),
                            FAdd(FMul(k1, normalizationFactor), freq))))

NormalizationFactor(b, length, avg) ==
  FAdd(Scale - b, FMul(b, FDiv(length, avg)))

Idf(n, total, k) ==
  IF ToNumber(total) = NaN THEN NaN
  ELSE Ln(FAdd(FDiv(FP(ToNumber(total) - n), FP(ToNumber(total))), k))

\* consolidate's only check.
TooFewDocs_OffByOne == totalDocs < MinDocs - 1
TooFewDocs_OneShot == totalDocs < MinDocs \/ consolidated
TooFewDocs == Less(ToNumber(totalDocs), MinDocs)

Consolidate ==
  /\ UNCHANGED prepVars
  /\ UNCHANGED << invertedIdx, learned, totalDocs, totalCorpusLength, config >>
  /\ IF TooFewDocs
     THEN /\ ret' = Ret("consolidate", NoArg, "InsufficientData", FALSE)
          /\ UNCHANGED << documents, idf, consolidated, avgCorpusLength,
                          nCons, nRepeat >>
     ELSE IF config = None
     THEN /\ ret' = Ret("consolidate", NoArg, "TypeError", FALSE)
          /\ UNCHANGED << documents, idf, consolidated, avgCorpusLength,
                          nCons, nRepeat >>
     ELSE /\ nCons < MaxConsolidations
          /\ nCons' = nCons + 1
          /\ nRepeat' = nRepeat + 1
          /\ LET p == Val(config).bm25Params
                 avg == FDiv(ToNumber(totalCorpusLength), CountFP(totalDocs))
             IN /\ avgCorpusLength' = avg
                /\ documents' =
                     [id \in DOMAIN documents |->
                        [freq |->
                           [t \in DOMAIN documents[id].freq |->
                              Saturate(ToNumber(documents[id].freq[t]), p.k1,
                                       NormalizationFactor(p.b, documents[id].length, avg))],
                         length |-> documents[id].length]]
                /\ idf' = [t \in DOMAIN idf \cup DOMAIN invertedIdx |->
                             IF t \in DOMAIN invertedIdx
                             THEN Idf(Len(invertedIdx[t]), totalDocs, p.k)
                             ELSE idf[t]]
          /\ consolidated' = TRUE
          /\ ret' = Ret("consolidate", NoArg, "ok", TRUE)

\* ------------------------------------------------------------------ search
\* The scoring loops: results is the sequence of [id, score] entries of the
\* results object in the order its keys were created.
IndexOfId_Never(results, id) == 0
IndexOfId(results, id) ==
  IF \E i \in 1 .. Len(results) : results[i].id = id
  THEN CHOOSE i \in 1 .. Len(results) : results[i].id = id
  ELSE 0

\* results[ id ] || 0
OrZero(score) == IF score = NaN THEN 0 ELSE score

RECURSIVE ScoreIds(_, _, _, _)
ScoreIds(results, t, ids, i) ==
  IF i > Len(ids) THEN results
  ELSE LET id == ids[i]
           term == FMul(ToNumber(documents[id].freq[t]), idf[t])
           at == IndexOfId(results, id)
       IN ScoreIds(IF at = 0
                   THEN Append(results, [id |-> id, score |-> FAdd(term, 0)])
                   ELSE [results EXCEPT
                           ![at].score = FAdd(term, OrZero(results[at].score))],
                   t, ids, i + 1)

RECURSIVE ScoreTokens(_, _, _)
ScoreTokens(results, tkns, j) ==
  IF j > Len(tkns) THEN results
  ELSE ScoreTokens(IF tkns[j] \in DOMAIN invertedIdx
                   THEN ScoreIds(results, tkns[j], invertedIdx[tkns[j]], 1)
                   ELSE results,
                   tkns, j + 1)

\* Array.prototype.sort with helpers.array.descendingOnValue, which puts a
\* before b unless a's score < b's score: a stable sort on the score, largest
\* first.  With a NaN among the scores the comparison is not an order and
\* the place of the entries depends on the sort procedure; an insertion
\* from the front is taken here.
RECURSIVE InsertDescending(_, _)
InsertDescending(sorted, e) ==
  IF sorted = << >> THEN << e >>
  ELSE IF ~Less(Head(sorted).score, e.score)
  THEN << Head(sorted) >> \o InsertDescending(Tail(sorted), e)
  ELSE << e >> \o sorted

RECURSIVE SortDescending(_, _, _)
SortDescending(sorted, table, i) ==
  IF i > Len(table) THEN sorted
  ELSE SortDescending(InsertDescending(sorted, table[i]), table, i + 1)

\* Math.max( ( limit || 10 ), 1 )
SliceEnd(limit) ==
  Max(IF IsSome(limit) /\ Val(limit) # 0 THEN Val(limit) ELSE DefaultLimit, 1)

Slice(s, n) == SubSeq(s, 1, IF n < Len(s) THEN n ELSE Len(s))

SearchBlocked == ~consolidated

\* What a search call returns in the current state.
SearchResult(text, limit) ==
  IF SearchBlocked
  THEN Ret("search", NoArg, "InvalidState", << >>)
  ELSE IF ~IsSome(text)
  THEN Ret("search", [text |-> text, limit |-> None], "InvalidArgument", << >>)
  ELSE LET p == PrepareInput(Val(text), SearchField)
       IN IF ~p.ok
          THEN Ret("search", [text |-> text, limit |-> None], "TypeError", << >>)
          ELSE Ret("search", [text |-> text, limit |-> limit], "ok",
                   Slice(SortDescending(<< >>,
                                        ScoreTokens(<< >>, p.value, 1), 1),
                         SliceEnd(limit)))

\* search assigns to its local variables only.
SearchKeeps_ScoresInPlace ==
  /\ UNCHANGED << invertedIdx, idf, learned, consolidated, totalDocs,
                  totalCorpusLength, avgCorpusLength, config >>
  /\ documents' =
       IF consolidated
       THEN [id \in DOMAIN documents |->
               [freq |-> [t \in DOMAIN documents[id].freq |->
                            FMul(ToNumber(documents[id].freq[t]), idf[t])],
                length |-> documents[id].length]]
       ELSE documents

SearchKeeps == UNCHANGED learnVars

Search(text, limit) ==
  /\ UNCHANGED prepVars
  /\ SearchKeeps
  /\ UNCHANGED ghostCounters
  /\ ret' = SearchResult(text, limit)

\* ------------------------------------------------------------------- reset
Reset ==
  /\ UNCHANGED prepVars
  /\ documents' = EmptyMap
  /\ invertedIdx' = EmptyMap
  /\ idf' = EmptyMap
  /\ learned' = FALSE
  /\ consolidated' = FALSE
  /\ totalDocs' = 0
  /\ totalCorpusLength' = 0
  /\ avgCorpusLength' = 0
  /\ config' = None
  /\ nCons' = 0
  /\ nRepeat' = 0
  /\ ret' = Ret("reset", NoArg, "ok", TRUE)

\* -------------------------------------------------------------- exportJSON
\* JSON.stringify writes null for NaN and for the infinities and leaves out
\* a property whose value is undefined.
JsonNumber(x) == IF IsFinite(x) \/ x = Undefined THEN x ELSE JsonNull

\* JSON.stringify( [ config, docStats, documents, invertedIdx ] ): the text
\* is modelled by what JSON.parse gives for it.
Snapshot ==
  [kind |-> "snapshot",
   config |-> config,
   docStats |-> [totalCorpusLength |-> JsonNumber(totalCorpusLength),
                 totalDocs |-> JsonNumber(totalDocs)],
   documents |->
     [id \in DOMAIN documents |->
        [freq |-> [t \in DOMAIN documents[id].freq |->
                     JsonNumber(documents[id].freq[t])],
         length |-> documents[id].length]],
   invertedIdx |-> invertedIdx]

ExportJSON ==
  /\ UNCHANGED prepVars
  /\ UNCHANGED learnVars
  /\ UNCHANGED ghostCounters
  /\ ret' = Ret("exportJSON", NoArg, "ok", Snapshot)

\* -------------------------------------------------------------- importJSON
\* Texts that are not a snapshot: the empty string, text that is not JSON,
\* JSON that is not an array, an array of 3 objects, and an array of 4
\* elements whose last is a number.
BadBlobs == { [kind |-> "empty"], [kind |-> "unparseable"], [kind |-> "notArray"],
              [kind |-> "wrongLength"], [kind |-> "elementNotObject"] }

\* A throw of importJSON: every one of them precedes the reset() call.
RejectImport_AfterReset(status) ==
  /\ ret' = Ret("importJSON", NoArg, status, FALSE)
  /\ documents' = EmptyMap
  /\ invertedIdx' = EmptyMap
  /\ idf' = EmptyMap
  /\ learned' = FALSE
  /\ consolidated' = FALSE
  /\ totalDocs' = 0
  /\ totalCorpusLength' = 0
  /\ avgCorpusLength' = 0
  /\ config' = None
  /\ nRepeat' = 0

RejectImport(status) ==
  /\ ret' = Ret("importJSON", NoArg, status, FALSE)
  /\ UNCHANGED learnVars
  /\ UNCHANGED nRepeat

\* The value reset() gives to consolidated, which importJSON leaves alone.
ConsolidatedAfterImport_Kept == consolidated

ConsolidatedAfterImport == FALSE

ImportJSON(json) ==
  /\ UNCHANGED prepVars
  /\ UNCHANGED nCons
  /\ IF json.kind = "empty"
     THEN RejectImport("InvalidArgument")
     ELSE IF json.kind = "unparseable"
     THEN RejectImport("SyntaxError")
     ELSE IF json.kind # "snapshot" \/ json.config = None
     THEN RejectImport("InvalidArgument")
     ELSE /\ nRepeat' = 0
          /\ idf' = EmptyMap
          /\ consolidated' = ConsolidatedAfterImport
          /\ avgCorpusLength' = 0
          /\ learned' = TRUE
          /\ config' = json.config
          /\ totalCorpusLength' = json.docStats.totalCorpusLength
          /\ totalDocs' = json.docStats.totalDocs
          /\ documents' = json.documents
          /\ invertedIdx' = json.invertedIdx
          /\ ret' = Ret("importJSON", NoArg, "ok", TRUE)

\* A text kept from an earlier export: what exportJSON returns once
\* defineConfig( { fldWeights: { title: 2, body: 1 }, bm25Params: { k1: 2 } } )
\* and addDoc of { title: 'ab', body: 'a' } as d1, { title: 'a', body: 'cc' }
\* as d2 and { title: 'ab', body: 'a' } as d3 have run.
StoredBlob ==
  [kind |-> "snapshot",
   config |-> Some([fldWeights |-> << [field |-> "title", weight |-> FP(2)],
                                      [field |-> "body", weight |-> FP(1)] >>,
                    bm25Params |-> [b |-> (3 * Scale) \div 4, k1 |-> FP(2),
                                    k |-> FP(1)]]),
   docStats |-> [totalCorpusLength |-> FP(14), totalDocs |-> 3],
   documents |->
     [id \in DocIds |->
        IF id = "d2"
        THEN [freq |-> [t \in {"a", "c"} |-> FP(2)], length |-> FP(4)]
        ELSE [freq |-> [t \in {"a", "b"} |-> IF t = "a" THEN FP(3) ELSE FP(2)],
              length |-> FP(5)]],
   invertedIdx |->
     [t \in {"a", "b", "c"} |->
        IF t = "a" THEN << "d1", "d2", "d3" >>
        ELSE IF t = "b" THEN << "d1", "d3" >> ELSE << "d2" >>]]

\* The texts given to importJSON: the malformed ones, the stored one, and
\* the text the preceding exportJSON call returned.
JsonInputs ==
  BadBlobs \cup {StoredBlob}
           \cup (IF ret.op = "exportJSON" THEN {ret.value} ELSE {})

\* ----------------------------------------------------------- specification
Next ==
  \/ \E in \in PrepInputs : DefinePrepTasks(in[1], in[2])
  \/ \E cfg \in CfgInputs : DefineConfig(cfg)
  \/ \E doc \in DocInputs, id \in DocIds : AddDoc(doc, id)
  \/ Consolidate
  \/ \E text \in QueryInputs, limit \in LimitInputs : Search(text, limit)
  \/ Reset
  \/ ExportJSON
  \/ \E json \in JsonInputs : ImportJSON(json)

Spec == Init /\ [][Next]_vars

\* The engine under a configuration with a negative weight and k1 = 2, for
\* which the denominator k1 * normalizationFactor + freq of the saturation
\* can be zero.
SignedCfg ==
  [isObject |-> TRUE,
   fldWeights |-> Some(<< FW("title", Some(FP(1))), FW("body", Some(FP(0 - 1))) >>),
   bm25Params |-> Some([b |-> None, k1 |-> Some(FP(2)), k |-> None])]

NextSigned ==
  \/ DefineConfig(SignedCfg)
  \/ \E doc \in DocInputs, id \in DocIds : AddDoc(doc, id)
  \/ Consolidate
  \/ \E text \in QueryInputs, limit \in { None, Some(1) } : Search(text, limit)
  \/ Reset

SpecSigned == Init /\ [][NextSigned]_vars

\* The engine given a text of four mappings of which the second is empty:
\* '[{"fldWeights":{"title":1,"body":-1},"bm25Params":{"k1":1.2,"b":0.75,
\* "k":1}},{},{},{}]'.  importJSON reads totalCorpusLength and totalDocs
\* from the empty mapping.
EmptyStatsBlob ==
  [kind |-> "snapshot",
   config |-> Some([fldWeights |-> << [field |-> "title", weight |-> FP(1)],
                                      [field |-> "body", weight |-> FP(0 - 1)] >>,
                    bm25Params |-> [b |-> (3 * Scale) \div 4,
                                    k1 |-> (6 * Scale) \div 5, k |-> FP(1)]]),
   docStats |-> [totalCorpusLength |-> Undefined, totalDocs |-> Undefined],
   documents |-> EmptyMap,
   invertedIdx |-> EmptyMap]

NextEmptyStats ==
  \/ ImportJSON(EmptyStatsBlob)
  \/ \E doc \in DocInputs, id \in DocIds : AddDoc(doc, id)
  \/ Consolidate
  \/ \E text \in QueryInputs : Search(text, None)
  \/ Reset
  \/ ExportJSON

SpecEmptyStats == Init /\ [][NextEmptyStats]_vars

\* ================================================================== claims
Range(s) == { s[i] : i \in 1 .. Len(s) }

\* C1: whenever a document has been added since the last reset, a
\* defineConfig call, with any argument and wherever the instance is in its
\* lifecycle, fails with InvalidState and leaves the configuration as it was.
C1_ConfigFrozenAfterAdd ==
  [][(ret'.op = "defineConfig" /\ totalDocs > 0)
       => (ret'.status = "InvalidState" /\ config' = config)]_vars

C1_Witness ==
  /\ ret.op = "defineConfig"
  /\ ret.status = "InvalidState"
  /\ totalDocs > 0
  /\ consolidated

\* C2: an addDoc call made while the configuration is null or the instance is
\* consolidated fails with InvalidState and changes nothing; and consolidated
\* goes back to false only in a reset or importJSON call.
C2_AddRefused ==
  [][/\ (ret'.op = "addDoc" /\ (config = None \/ consolidated))
          => (ret'.status = "InvalidState" /\ UNCHANGED << prepVars, learnVars >>)
     /\ (consolidated /\ ~consolidated')
          => ret'.op \in {"reset", "importJSON"}]_vars

C2_Witness ==
  /\ ret.op = "addDoc"
  /\ ret.status = "InvalidState"
  /\ consolidated
  /\ totalDocs >= MinDocs

\* C3: a search call on an instance that is not consolidated fails with
\* InvalidState; on a consolidated instance a search for a string succeeds,
\* and returns the empty list when no token of the query is in the inverted
\* index.
C3_SearchTotalOnceConsolidated ==
  ret.op = "search" =>
    IF ~consolidated THEN ret.status = "InvalidState"
    ELSE IsSome(ret.arg.text) =>
           /\ ret.status = "ok"
           /\ (Range(PrepareInput(Val(ret.arg.text), SearchField).value)
                 \cap DOMAIN invertedIdx = {}) => ret.value = << >>

\* C4: a consolidate call with totalDocs < 3 fails with InsufficientData and
\* changes nothing; with totalDocs >= 3 on an instance not yet consolidated it
\* succeeds and sets consolidated.
C4_ConsolidateThreshold ==
  [][ret'.op = "consolidate" =>
       IF totalDocs < MinDocs
       THEN ret'.status = "InsufficientData" /\ UNCHANGED << prepVars, learnVars >>
       ELSE ~consolidated => (ret'.status = "ok" /\ consolidated')]_vars

C4_Witness ==
  /\ ret.op = "consolidate"
  /\ ret.status = "InsufficientData"
  /\ totalDocs = MinDocs - 1
  /\ ~consolidated

\* C5 as stated: on a consolidated instance a further consolidate call does
\* not succeed.
C5_OneShot ==
  [][(consolidated /\ ret'.op = "consolidate") => ret'.status # "ok"]_vars

\* C5 as amended: on a consolidated instance a further consolidate call
\* succeeds again and leaves consolidated true.
C5_RepeatSucceeds ==
  [][(consolidated /\ ret'.op = "consolidate")
       => (ret'.status = "ok" /\ consolidated')]_vars

C5_Witness ==
  /\ ret.op = "consolidate"
  /\ ret.status = "ok"
  /\ nRepeat = 2
  /\ consolidated

\* C6: on a configured instance that is not consolidated, an addDoc call with
\* an id already in the document store fails with DuplicateId and leaves the
\* document store, the inverted index, both totals, the configuration and
\* both lifecycle flags as they were.
C6_DuplicateIdRefused ==
  [][(ret'.op = "addDoc" /\ config # None /\ ~consolidated
        /\ ret'.arg \in DOMAIN documents)
       => /\ ret'.status = "DuplicateId"
          /\ UNCHANGED << documents, invertedIdx, totalDocs, totalCorpusLength,
                          config, learned, consolidated >>]_vars

C6_Witness ==
  /\ ret.op = "addDoc"
  /\ ret.status = "DuplicateId"
  /\ ret.arg \in DOMAIN documents
  /\ totalDocs > 0

\* A configuration that names every field of Fields, as a successful
\* defineConfig call with both fields leaves it.
BothFieldsConfigured ==
  IsSome(config) /\ Len(Val(config).fldWeights) = Cardinality(Fields)

\* C7: an addDoc call that fails with MissingField leaves the document store,
\* the inverted index, totalDocs and totalCorpusLength as they were (stated
\* for an instance configured with both fields, where either can be the
\* missing one).
C7_MissingFieldNoMutation ==
  [][(ret'.op = "addDoc" /\ ret'.status = "MissingField" /\ BothFieldsConfigured)
       => UNCHANGED << documents, invertedIdx, totalDocs, totalCorpusLength >>]_vars

\* C8: a defineConfig call that fails with InvalidArgument leaves the
\* configuration as it was.
C8_FailedConfigNoMutation ==
  [][(ret'.op = "defineConfig" /\ ret'.status = "InvalidArgument")
       => config' = config]_vars

\* C9: a successful search returns at most max(limit, 1) entries, an absent
\* limit counting as 10; so at most 1 entry for the limits 0 and -5 (stated
\* for an instance configured with both fields).
ClaimedLimit(limit) == IF IsSome(limit) THEN Val(limit) ELSE DefaultLimit

C9_LimitClamp ==
  (ret.op = "search" /\ ret.status = "ok" /\ BothFieldsConfigured)
    => Len(ret.value) <= Max(ClaimedLimit(ret.arg.limit), 1)

\* C10: a successful search whose limit is at least the number of documents
\* returns each id of the posting lists of the query's tokens exactly once
\* and no other id; these are the documents whose frequency map has an entry
\* for some token of the query.
QueryTokens == Range(PrepareInput(Val(ret.arg.text), SearchField).value)
ResultIds == { ret.value[i].id : i \in 1 .. Len(ret.value) }

C10_ResultIdsArePostings ==
  (ret.op = "search" /\ ret.status = "ok"
     /\ ClaimedLimit(ret.arg.limit) >= Cardinality(DOMAIN documents))
    => /\ ResultIds = UNION { Range(invertedIdx[t]) :
                                t \in QueryTokens \cap DOMAIN invertedIdx }
       /\ Len(ret.value) = Cardinality(ResultIds)
       /\ ResultIds = { id \in DOMAIN documents :
                          \E t \in QueryTokens : t \in DOMAIN documents[id].freq }

C10_Witness ==
  /\ ret.op = "search"
  /\ ret.status = "ok"
  /\ ret.arg.limit = Some(MaxLimit)
  /\ Len(ret.value) >= 1
  /\ Len(ret.value) < Cardinality(DOMAIN documents)
  /\ Cardinality(QueryTokens) = 2

\* C11: importJSON of the text that exportJSON has just returned on an
\* instance that is not consolidated succeeds and restores everything addDoc
\* reads (configuration, consolidated flag, document store, inverted index,
\* both totals), so that every later addDoc call has the outcome it would
\* have had, and exportJSON returns the same text again.
C11_RoundTrip ==
  [][(ret.op = "exportJSON" /\ ~consolidated /\ ImportJSON(ret.value))
       => /\ ret'.status = "ok"
          /\ UNCHANGED << config, consolidated, documents, invertedIdx,
                          totalDocs, totalCorpusLength >>
          /\ Snapshot' = Snapshot]_vars

\* C12: a successful importJSON, into an instance in any state and of a text
\* exported before or after consolidation, leaves learned true and
\* consolidated false; from then on defineConfig fails with InvalidState (as
\* long as learned stays true, which only reset ends) and search fails with
\* InvalidState until a consolidate call succeeds.
C12_ImportedNeedsConsolidate ==
  [][/\ (ret'.op = "importJSON" /\ ret'.status = "ok")
          => (learned' /\ ~consolidated')
     /\ (learned /\ ~learned') => ret'.op = "reset"
     /\ (~consolidated /\ consolidated')
          => (ret'.op = "consolidate" /\ ret'.status = "ok")
     /\ (learned /\ ret'.op = "defineConfig")
          => (ret'.status = "InvalidState" /\ config' = config)
     /\ (~consolidated /\ ret'.op = "search")
          => ret'.status = "InvalidState"]_vars

\* An instance that had consolidated has imported the stored text, which was
\* exported before consolidation, and a search has then been refused.
C12_Witness ==
  /\ nCons > 0
  /\ nRepeat = 0
  /\ Snapshot = StoredBlob
  /\ ~consolidated
  /\ ret.op = "search"
  /\ ret.status = "InvalidState"

\* A text whose first element is null: four elements, the first not an
\* object.
NullConfigBlob == [Snapshot EXCEPT !.config = None]

\* C13: importJSON fails on the empty text, on text that is not JSON, on
\* JSON that is not an array of exactly 4 elements and on an array with an
\* element that is not a plain object (null where the configuration should
\* be included), and every failed importJSON leaves the state of the
\* instance, pipelines included, as it was.
C13_FailedImportNoMutation ==
  [][ret'.op = "importJSON"
       => /\ \A json \in BadBlobs \cup {NullConfigBlob} :
               ImportJSON(json)
                 => ret'.status \in {"InvalidArgument", "SyntaxError"}
          /\ ret'.status # "ok"
               => (UNCHANGED prepVars /\ UNCHANGED learnVars)]_vars

\* A consolidated instance holding documents has refused a text.
C13_Witness ==
  /\ ret.op = "importJSON"
  /\ ret.status = "SyntaxError"
  /\ consolidated
  /\ totalDocs >= MinDocs
  /\ idf # EmptyMap

\* C14: reset succeeds and leaves the stores empty, the totals zero, the
\* configuration undefined and both flags false, with the pipelines as they
\* were; the defineConfig call that follows a reset is not refused for the
\* state of the instance, and addDoc is refused with InvalidState after a
\* reset until a defineConfig call has been accepted.
C14_ResetRestoresInitial ==
  [][/\ ret'.op = "reset"
          => /\ ret'.status = "ok"
             /\ documents' = EmptyMap /\ invertedIdx' = EmptyMap
             /\ idf' = EmptyMap
             /\ totalDocs' = 0 /\ totalCorpusLength' = 0
             /\ avgCorpusLength' = 0
             /\ config' = None
             /\ ~learned' /\ ~consolidated'
             /\ UNCHANGED prepVars
     /\ (ret.op = "reset" /\ ret'.op = "defineConfig")
          => /\ ret'.status # "InvalidState"
             /\ ret'.status # "ok" => AddBlocked'
     /\ (ret.op = "reset" /\ ret'.op = "addDoc")
          => ret'.status = "InvalidState"]_vars

\* C15: a search call changes no state of the engine, and a search call that
\* directly follows a search call that returned, with the same text and
\* limit, is not refused and returns the same entries in the same order.
C15_SearchReadOnly ==
  [][/\ ret'.op = "search" => (UNCHANGED prepVars /\ UNCHANGED learnVars)
     /\ (ret.op = "search" /\ ret.status = "ok" /\ ret'.op = "search")
          => /\ ret'.status # "InvalidState"
             /\ ret'.status # "ok" => ret'.arg.text # ret.arg.text
             /\ (ret'.status = "ok" /\ ret'.arg = ret.arg)
                  => ret'.value = ret.value]_vars

\* A search has returned two or more entries with different scores.
C15_Witness ==
  /\ ret.op = "search"
  /\ ret.status = "ok"
  /\ Len(ret.value) >= 2
  /\ ret.value[1].score # ret.value[2].score

\* The transforms of a sequence applied in order to x.
RECURSIVE ApplyInOrder(_, _)
ApplyInOrder(tasks, x) ==
  IF tasks = << >> THEN x ELSE ApplyInOrder(Tail(tasks), ApplyTask(Head(tasks), x))

\* C16: in every state, running the pipeline on the text of a field that has
\* a pipeline of its own, the empty one included, applies that field's
\* transforms in order (the empty pipeline returns the text as it is), and
\* on the text of any other field, the reserved query field included,
\* applies the default pipeline's transforms in order.
C16_PipelineSelection ==
  \A field \in Fields \cup {SearchField} :
    \A input \in { << "a", "b" >>, << "a", "c", "c" >> } :
      PrepareInput(input, field) =
        [ok |-> TRUE,
         value |-> ApplyInOrder(IF field \in DOMAIN flds
                                THEN flds[field].pTasks ELSE pTasks, input)]

NoRepeat(s) == \A i, j \in 1 .. Len(s) : s[i] = s[j] => i = j

\* Every posting list holds no id twice and holds the ids of the documents
\* whose frequency map has an entry for the term.
PostingsMatchFreq ==
  /\ \A t \in DOMAIN invertedIdx :
       /\ NoRepeat(invertedIdx[t])
       /\ Range(invertedIdx[t]) =
            { id \in DOMAIN documents : t \in DOMAIN documents[id].freq }
  /\ \A id \in DOMAIN documents :
       DOMAIN documents[id].freq \subseteq DOMAIN invertedIdx

\* C17: after every step that changes the document store or the inverted
\* index, for every term the posting list holds no id twice and holds
\* exactly the ids of the documents whose frequency map has an entry for the
\* term; and an addDoc step leaves every posting list as it was or appends
\* the id of the document being added at its end, so each list is in the
\* order in which the documents were added.
C17_PostingsConsistent ==
  [][/\ UNCHANGED << documents, invertedIdx >> \/ PostingsMatchFreq'
     /\ ret'.op = "addDoc"
          => \A t \in DOMAIN invertedIdx' :
               LET old == IF t \in DOMAIN invertedIdx
                          THEN invertedIdx[t] ELSE << >>
               IN \/ invertedIdx'[t] = old
                  \/ invertedIdx'[t] = Append(old, ret'.arg)]_vars

\* Three documents have been added, one with a term twice in one field and
\* one with a term in both fields, and a term is in all three.
C17_Witness ==
  /\ ret.op = "addDoc"
  /\ ret.status = "ok"
  /\ totalDocs = 3
  /\ \E t \in DOMAIN invertedIdx : Len(invertedIdx[t]) = 3
  /\ \E id \in DOMAIN documents :
       /\ "c" \in DOMAIN documents[id].freq
       /\ Abs(documents[id].freq["c"]) = FP(2)
  /\ \E id \in DOMAIN documents :
       /\ "b" \in DOMAIN documents[id].freq
       /\ documents[id].length = FP(3)

\* Every entry the scoring loops of the last search produced, before the
\* sort and the slice.
AllScored ==
  ScoreTokens(<< >>, PrepareInput(Val(ret.arg.text), SearchField).value, 1)

\* C18: in the result of a search, the score of each entry is >= the score
\* of the entry after it, and the score of each returned entry is >= the
\* score of every scored entry the truncation left out.
C18_ResultsDescending ==
  (ret.op = "search" /\ ret.status = "ok")
    => /\ \A i \in 1 .. Len(ret.value) - 1 :
            GreaterEq(ret.value[i].score, ret.value[i + 1].score)
       /\ \A i \in 1 .. Len(AllScored) :
            \/ AllScored[i].id \in ResultIds
            \/ \A j \in 1 .. Len(ret.value) :
                 GreaterEq(ret.value[j].score, AllScored[i].score)

\* The sum of the length fields of the records of ids.
RECURSIVE SumLengths(_)
SumLengths(ids) ==
  IF ids = {} THEN 0
  ELSE LET id == CHOOSE x \in ids : TRUE
       IN documents[id].length + SumLengths(ids \ {id})

\* C19: in every state totalCorpusLength is the sum of the length fields of
\* the records of the document store, the records a failed addDoc left
\* included, and no length is negative, negative weights included.
C19_CorpusLengthIsSum ==
  /\ totalCorpusLength = SumLengths(DOMAIN documents)
  /\ \A id \in DOMAIN documents : documents[id].length >= 0

\* Under a negative weight, a document with a negative frequency is stored
\* and an addDoc has failed for a missing field after it indexed the first.
C19_Witness ==
  /\ ret.op = "addDoc"
  /\ ret.status = "MissingField"
  /\ documents[ret.arg].length > 0
  /\ \E id \in DOMAIN documents :
       \E t \in DOMAIN documents[id].freq : documents[id].freq[t] < 0
  /\ ~consolidated

\* C20: in every state totalDocs is the number of records in the document
\* store (stated for an instance configured with both fields), and an addDoc
\* that returns has returned the previous totalDocs plus one.
C20_TotalDocsIsCount ==
  [][/\ BothFieldsConfigured' => totalDocs' = Cardinality(DOMAIN documents')
     /\ (ret'.op = "addDoc" /\ ret'.status = "ok")
          => (ret'.value = totalDocs + 1 /\ totalDocs' = totalDocs + 1)]_vars


\* C21: after every step, consolidated implies that learned is true, the
\* configuration is defined, totalDocs is a number >= 3 and idf has an entry
\* for every term of the inverted index; and a step that takes consolidated
\* from true to false is a reset or an importJSON.
C21_Lifecycle ==
  [][/\ consolidated'
          => /\ learned'
             /\ config' # None
             /\ IsFinite(totalDocs') /\ totalDocs' >= MinDocs
             /\ DOMAIN invertedIdx' \subseteq DOMAIN idf'
     /\ (consolidated /\ ~consolidated')
          => ret'.op \in {"reset", "importJSON"}]_vars

====
